---- MODULE Spec2Model ----
(***************************************************************************)
(* Model of the aggregate service-registry controller                      *)
(* (pilot/pkg/serviceregistry/aggregate/controller.go).                    *)
(*                                                                         *)
(* Spec / FairSpec : the registry set (a Go slice over backing arrays),    *)
(*   the cached count numK8SRegistries and storeLock (sync.RWMutex), with  *)
(*   goroutines running AddRegistry, DeleteRegistry and a scan over        *)
(*   GetRegistries() at the granularity of the lock operations, and Run.   *)
(* SpecMerge : concurrent Services() calls with clusterAddressesMutex,     *)
(*   next to AddRegistry and DeleteRegistry.                               *)
(* SpecRouter : InstancesByPort, GetProxyServiceInstances and              *)
(*   GetProxyWorkloadLabels over every registry sequence and every         *)
(*   combination of member answers; AppendServiceHandler and               *)
(*   AppendInstanceHandler.                                                *)
(* SpecServices : Services and GetService over Service records laid out    *)
(*   on a heap (records, maps and map values are objects), followed by     *)
(*   the registries changing their own records in place.                   *)
(***************************************************************************)
EXTENDS Integers, Sequences, FiniteSets, TLC

\* ------------------------------------------------------------------ bounds
\* longest registry sequence a controller starts from
MaxRegs == 3

\* ------------------------------------------------------------ registry handles
\* serviceregistry.Instance values known to the callers
Registry == {"ra", "rb", "rc", "rd", "re", "rk"}

\* the registries the callers of each specification register
StoreRegistries == {"ra", "rb", "rc", "rd"}

RouterRegistries == {"ra", "rb", "rc", "rk"}

ServiceRegistries == {"ra", "re", "rb", "rc"}

\* r.Cluster(): "" is a registry that is not cluster-scoped
Cluster(r) ==
  CASE r = "ra" -> ""
    [] r = "rb" -> "c1"
    [] r = "rc" -> "c2"
    [] r = "rd" -> "c1"
    [] r = "re" -> ""
    [] r = "rk" -> "Kubernetes"

ClusterIDs == {"", "c1", "c2", "c3"}

\* an unused slot of a backing array
NoRegistry == "nil"

Goroutines == {"g1", "g2"}

NoGoroutine == "none"

VARIABLES
  arrays,            \* heap of backing arrays of []serviceregistry.Instance, by array id
  registries,        \* c.registries: the slice header [arr, len]; cap is Len(arrays[arr])
  numK8SRegistries,  \* c.numK8SRegistries
  storeLock,         \* c.storeLock: [writer, readers]
  goroutine,         \* per goroutine: position and locals
  call,              \* the discovery call made: its inputs, the members' answers, its result
  heap,              \* the Service records of the registries and of the calls' results
  stop,              \* the stop channel handed to Run: TRUE once it is closed
  clusterAddressesMutex,  \* the package-level sync.Mutex: its holder
  pass               \* per goroutine: the locals of its Services() call

vars == <<arrays, registries, numK8SRegistries, storeLock, goroutine, call, heap, stop,
          clusterAddressesMutex, pass>>

\* no discovery call made yet
NoCall == [op |-> "none"]

\* ------------------------------------------------------------------ helpers
\* all sequences over S without repetition, of length at most n
SeqsUpTo(S, n) ==
  {s \in UNION {[1..k -> S] : k \in 0..n} :
     \A i, j \in 1..Len(s) : i # j => s[i] # s[j]}

\* Go's append growth for a small slice: the capacity doubles (from 0 it becomes 1)
GrowCap(c) == IF c = 0 THEN 1 ELSE 2 * c

RECURSIVE CapAfter(_)
\* capacity of a slice built by n appends from make([]T, 0)
CapAfter(n) ==
  IF n = 0 THEN 0
  ELSE LET c == CapAfter(n - 1) IN IF n - 1 < c THEN c ELSE GrowCap(c)

\* s padded with unused slots to length n
Padded(s, n) == [i \in 1..n |-> IF i <= Len(s) THEN s[i] ELSE NoRegistry]

\* the elements a slice header denotes now
View(hdr) == [i \in 1..hdr.len |-> arrays[hdr.arr][i]]

RECURSIVE CountK8S(_)
\* the recount loop: members whose cluster id is not empty
CountK8S(s) ==
  IF s = <<>> THEN 0
  ELSE (IF Cluster(s[Len(s)]) # "" THEN 1 ELSE 0) + CountK8S(SubSeq(s, 1, Len(s) - 1))

\* an index lookup that answers the last member with that cluster id
GetRegistryIndexLast(s, clusterID) ==
  IF \E i \in 1..Len(s) : Cluster(s[i]) = clusterID
  THEN [index |-> CHOOSE i \in 1..Len(s) :
                    /\ Cluster(s[i]) = clusterID
                    /\ \A j \in (i + 1)..Len(s) : Cluster(s[j]) # clusterID,
        ok |-> TRUE]
  ELSE [index |-> 0, ok |-> FALSE]

\* an index lookup whose caller takes the default index for a hit
GetRegistryIndexNoMiss(s, clusterID) ==
  IF \E i \in 1..Len(s) : Cluster(s[i]) = clusterID
  THEN [index |-> CHOOSE i \in 1..Len(s) :
                    /\ Cluster(s[i]) = clusterID
                    /\ \A j \in 1..(i - 1) : Cluster(s[j]) # clusterID,
        ok |-> TRUE]
  ELSE [index |-> 1, ok |-> TRUE]

\* GetRegistryIndex: position of the first member with that cluster id
GetRegistryIndex(s, clusterID) ==
  IF \E i \in 1..Len(s) : Cluster(s[i]) = clusterID
  THEN [index |-> CHOOSE i \in 1..Len(s) :
                    /\ Cluster(s[i]) = clusterID
                    /\ \A j \in 1..(i - 1) : Cluster(s[j]) # clusterID,
        ok |-> TRUE]
  ELSE [index |-> 0, ok |-> FALSE]

Idle == [pc |-> "idle", ret |-> "", arg |-> "", snap |-> [arr |-> 0, len |-> 0],
         idx |-> 0, visited |-> <<>>, taken |-> <<>>]

\* the locals of a Services() call that has not started
NoPass == [merge |-> FALSE, svcs |-> "none", services |-> <<>>, smap |-> "none",
           errs |-> <<>>]

\* ------------------------------------------------------------------ Init
\* NewController, and the controllers the operations are applied to: a registry
\* sequence over S as AddRegistry's appends lay it out, with the count its recount
\* gives.
InitWith(S) ==
  \E s \in SeqsUpTo(S, MaxRegs) :
    /\ arrays = <<Padded(s, CapAfter(Len(s)))>>
    /\ registries = [arr |-> 1, len |-> Len(s)]
    /\ numK8SRegistries = CountK8S(s)
    /\ storeLock = [writer |-> NoGoroutine, readers |-> {}]
    /\ goroutine = [g \in Goroutines |-> Idle]
    /\ call = NoCall
    /\ heap = [svc |-> <<>>, map |-> <<>>, ent |-> <<>>]
    /\ stop = FALSE
    /\ clusterAddressesMutex = NoGoroutine
    /\ pass = [g \in Goroutines |-> NoPass]

Init == InitWith(StoreRegistries)

InitRouter == InitWith(RouterRegistries)

InitServices == InitWith(ServiceRegistries)

\* ------------------------------------------------------------ sync.RWMutex
\* Lock() returns only when no goroutine holds the lock in either mode
CanLock == storeLock.writer = NoGoroutine /\ storeLock.readers = {}

\* RLock() returns only when no goroutine holds the lock exclusively;
\* the mutex does not know its owner, so the holder itself waits too
CanRLock == storeLock.writer = NoGoroutine

\* ------------------------------------------------------------ AddRegistry
\* c.storeLock.Lock()
AddRegistryLock(g, r) ==
  /\ goroutine[g].pc = "idle"
  /\ registries.len <= MaxRegs
  /\ CanLock
  /\ storeLock' = [storeLock EXCEPT !.writer = g]
  /\ goroutine' = [goroutine EXCEPT ![g] = [Idle EXCEPT !.pc = "add_append", !.arg = r]]
  /\ UNCHANGED <<arrays, registries, numK8SRegistries, call, heap, stop,
                 clusterAddressesMutex, pass>>

\* c.registries = append(c.registries, registry); then the recount calls GetRegistries
AddRegistryAppend(g) ==
  /\ goroutine[g].pc = "add_append"
  /\ LET a == arrays[registries.arr]
         n == registries.len
     IN IF n < Len(a)
        THEN /\ arrays' = [arrays EXCEPT ![registries.arr][n + 1] = goroutine[g].arg]
             /\ registries' = [registries EXCEPT !.len = n + 1]
        ELSE /\ arrays' = Append(arrays,
                            Padded(Append(SubSeq(a, 1, n), goroutine[g].arg),
                                   GrowCap(Len(a))))
             /\ registries' = [arr |-> Len(arrays) + 1, len |-> n + 1]
  /\ goroutine' = [goroutine EXCEPT ![g].pc = "rlock", ![g].ret = "recount"]
  /\ UNCHANGED <<numK8SRegistries, storeLock, call, heap, stop, clusterAddressesMutex,
                 pass>>

\* ------------------------------------------------------------ DeleteRegistry
\* c.storeLock.Lock()
DeleteRegistryLock(g, clusterID) ==
  /\ goroutine[g].pc = "idle"
  /\ CanLock
  /\ storeLock' = [storeLock EXCEPT !.writer = g]
  /\ goroutine' = [goroutine EXCEPT ![g] = [Idle EXCEPT !.pc = "del_find", !.arg = clusterID]]
  /\ UNCHANGED <<arrays, registries, numK8SRegistries, call, heap, stop,
                 clusterAddressesMutex, pass>>

\* the two early returns, or registries := c.registries with the index to remove
\* (taken keeps the members the call found, for reference)
DeleteRegistryFind(g) ==
  /\ goroutine[g].pc = "del_find"
  /\ LET found == GetRegistryIndex(View(registries), goroutine[g].arg)
     IN IF registries.len = 0 \/ ~found.ok
        THEN goroutine' = [goroutine EXCEPT ![g].pc = "unlock"]
        ELSE goroutine' = [goroutine EXCEPT ![g].pc = "del_shift",
                                            ![g].snap = registries,
                                            ![g].idx = found.index,
                                            ![g].taken = View(registries)]
  /\ UNCHANGED <<arrays, registries, numK8SRegistries, storeLock, call, heap, stop,
                 clusterAddressesMutex, pass>>

\* append(registries[:index], registries[index+1:]...): registries[:index] keeps the
\* capacity, so the tail is moved down inside the same backing array, slot by slot
DeleteRegistryShift(g) ==
  /\ goroutine[g].pc = "del_shift"
  /\ LET k == goroutine[g].idx
         hdr == goroutine[g].snap
     IN IF k < hdr.len
        THEN /\ arrays' = [arrays EXCEPT ![hdr.arr][k] = arrays[hdr.arr][k + 1]]
             /\ goroutine' = [goroutine EXCEPT ![g].idx = k + 1]
        ELSE /\ arrays' = arrays
             /\ goroutine' = [goroutine EXCEPT ![g].pc = "del_store"]
  /\ UNCHANGED <<registries, numK8SRegistries, storeLock, call, heap, stop,
                 clusterAddressesMutex, pass>>

\* c.registries = registries; then the recount calls GetRegistries
DeleteRegistryStore(g) ==
  /\ goroutine[g].pc = "del_store"
  /\ registries' = [arr |-> goroutine[g].snap.arr, len |-> goroutine[g].snap.len - 1]
  /\ goroutine' = [goroutine EXCEPT ![g].pc = "rlock", ![g].ret = "recount",
                                    ![g].snap = Idle.snap, ![g].idx = 0]
  /\ UNCHANGED <<arrays, numK8SRegistries, storeLock, call, heap, stop,
                 clusterAddressesMutex, pass>>

\* the deferred c.storeLock.Unlock()
Unlock(g) ==
  /\ goroutine[g].pc = "unlock"
  /\ storeLock' = [storeLock EXCEPT !.writer = NoGoroutine]
  /\ goroutine' = [goroutine EXCEPT ![g] = Idle]
  /\ UNCHANGED <<arrays, registries, numK8SRegistries, call, heap, stop,
                 clusterAddressesMutex, pass>>

\* ------------------------------------------------------------ GetRegistries
\* c.storeLock.RLock()
GetRegistriesRLock(g) ==
  /\ goroutine[g].pc = "rlock"
  /\ CanRLock
  /\ storeLock' = [storeLock EXCEPT !.readers = @ \cup {g}]
  /\ goroutine' = [goroutine EXCEPT ![g].pc = "rlocked"]
  /\ UNCHANGED <<arrays, registries, numK8SRegistries, call, heap, stop,
                 clusterAddressesMutex, pass>>

\* return c.registries (the slice header) with the deferred RUnlock; the caller
\* goes on: a query starts its scan, AddRegistry/DeleteRegistry count the members
\* with a cluster id, store the count and reach their deferred Unlock
GetRegistriesReturn(g) ==
  /\ goroutine[g].pc = "rlocked"
  /\ storeLock' = [storeLock EXCEPT !.readers = @ \ {g}]
  /\ IF goroutine[g].ret = "recount"
     THEN /\ numK8SRegistries' = CountK8S(View(registries))
          /\ goroutine' = [goroutine EXCEPT ![g].pc = "unlock"]
     ELSE /\ numK8SRegistries' = numK8SRegistries
          /\ goroutine' = [goroutine EXCEPT ![g].pc = "scan",
                                            ![g].snap = registries,
                                            ![g].idx = 1,
                                            ![g].taken = View(registries)]
  /\ UNCHANGED <<arrays, registries, call, heap, stop, clusterAddressesMutex, pass>>

\* ------------------------------------------------------------ a query's scan
\* for _, r := range c.GetRegistries(): the call
QueryGetRegistries(g) ==
  /\ goroutine[g].pc = "idle"
  /\ goroutine' = [goroutine EXCEPT ![g].pc = "rlock", ![g].ret = "scan"]
  /\ UNCHANGED <<arrays, registries, numK8SRegistries, storeLock, call, heap, stop,
                 clusterAddressesMutex, pass>>

\* one iteration: the element is read from the backing array when it is visited
QueryVisit(g) ==
  /\ goroutine[g].pc = "scan"
  /\ goroutine[g].ret \in {"scan", "run"}
  /\ goroutine[g].idx <= goroutine[g].snap.len
  /\ goroutine' = [goroutine EXCEPT
                     ![g].visited = Append(@, arrays[goroutine[g].snap.arr][goroutine[g].idx]),
                     ![g].idx = @ + 1]
  /\ UNCHANGED <<arrays, registries, numK8SRegistries, storeLock, call, heap, stop,
                 clusterAddressesMutex, pass>>

\* the loop is over: the query returns
QueryReturn(g) ==
  /\ goroutine[g].pc = "scan"
  /\ goroutine[g].ret = "scan"
  /\ goroutine[g].idx > goroutine[g].snap.len
  /\ goroutine' = [goroutine EXCEPT ![g] = Idle]
  /\ UNCHANGED <<arrays, registries, numK8SRegistries, storeLock, call, heap, stop,
                 clusterAddressesMutex, pass>>

\* ------------------------------------------------------------ Run
\* Run(stop): for _, r := range c.GetRegistries() { go r.Run(stop) }. The loop is
\* the scan above: visiting a member starts its run loop in a goroutine of its own
\* and does not wait for it, so `visited` lists the run loops started.
RunGetRegistries(g) ==
  /\ goroutine[g].pc = "idle"
  /\ goroutine' = [goroutine EXCEPT ![g].pc = "rlock", ![g].ret = "run"]
  /\ UNCHANGED <<arrays, registries, numK8SRegistries, storeLock, call, heap, stop,
                 clusterAddressesMutex, pass>>

\* <-stop: the receive returns once the channel is closed, and Run returns
RunReceiveStop(g) ==
  /\ goroutine[g].pc = "scan"
  /\ goroutine[g].ret = "run"
  /\ goroutine[g].idx > goroutine[g].snap.len
  /\ stop
  /\ goroutine' = [goroutine EXCEPT ![g].pc = "run_returned"]
  /\ UNCHANGED <<arrays, registries, numK8SRegistries, storeLock, call, heap, stop,
                 clusterAddressesMutex, pass>>

\* the caller of Run goes on
RunReturned(g) ==
  /\ goroutine[g].pc = "run_returned"
  /\ goroutine' = [goroutine EXCEPT ![g] = Idle]
  /\ UNCHANGED <<arrays, registries, numK8SRegistries, storeLock, call, heap, stop,
                 clusterAddressesMutex, pass>>

\* close(stop) by the owner of the channel
CloseStop ==
  /\ ~stop
  /\ stop' = TRUE
  /\ UNCHANGED <<arrays, registries, numK8SRegistries, storeLock, goroutine, call,
                 heap, clusterAddressesMutex, pass>>

\* ------------------------------------------------------------ specification
Step(g) ==
  \/ \E r \in StoreRegistries : AddRegistryLock(g, r)
  \/ AddRegistryAppend(g)
  \/ \E clusterID \in ClusterIDs : DeleteRegistryLock(g, clusterID)
  \/ DeleteRegistryFind(g)
  \/ DeleteRegistryShift(g)
  \/ DeleteRegistryStore(g)
  \/ Unlock(g)
  \/ GetRegistriesRLock(g)
  \/ GetRegistriesReturn(g)
  \/ QueryGetRegistries(g)
  \/ QueryVisit(g)
  \/ QueryReturn(g)
  \/ RunGetRegistries(g)
  \/ RunReceiveStop(g)
  \/ RunReturned(g)

Next ==
  \/ \E g \in Goroutines : Step(g)
  \/ CloseStop

Spec == Init /\ [][Next]_vars

\* every goroutine that can take a step is eventually scheduled
FairSpec == Spec /\ \A g \in Goroutines : WF_vars(Step(g))

\* ------------------------------------------------------------ Services, step by step
\* Concurrent Services() calls at the granularity of their lock operations. Every
\* member reports one service of the same hostname, or fails: "ok" is a record
\* whose ClusterVIPs map is there, "nilvips" one whose ClusterVIPs is nil (their
\* ClusterExternalAddresses / ClusterExternalPorts are nil).
MergeRegistries == {"ra", "rb", "rc"}

InitMerge == InitWith(MergeRegistries)

MergeAnswers == {"err", "ok", "nilvips"}

\* if c.numK8SRegistries <= 1 (read without the set lock), then c.GetRegistries()
ServicesReadCount(g) ==
  /\ goroutine[g].pc = "idle"
  /\ goroutine' = [goroutine EXCEPT ![g].pc = "rlock", ![g].ret = "services"]
  /\ pass' = [pass EXCEPT ![g] = [NoPass EXCEPT !.merge = numK8SRegistries > 1]]
  /\ UNCHANGED <<arrays, registries, numK8SRegistries, storeLock, call, heap, stop,
                 clusterAddressesMutex>>

\* svcs, err := r.Services() for the next element of the snapshot; a failure is
\* collected, the fast path appends, the merge path goes for the mutex
ServicesFetch(g, answer) ==
  /\ goroutine[g].pc = "scan"
  /\ goroutine[g].ret = "services"
  /\ goroutine[g].idx <= goroutine[g].snap.len
  /\ LET r == arrays[goroutine[g].snap.arr][goroutine[g].idx]
     IN /\ goroutine' = [goroutine EXCEPT
                           ![g].visited = Append(@, r),
                           ![g].idx = @ + 1,
                           ![g].pc = IF answer # "err" /\ pass[g].merge
                                     THEN "mutex_lock" ELSE "scan"]
        /\ pass' = [pass EXCEPT ![g] =
                      IF answer = "err" THEN [@ EXCEPT !.errs = Append(@, "e1")]
                      ELSE IF pass[g].merge THEN [@ EXCEPT !.svcs = answer]
                      ELSE [@ EXCEPT !.services =
                              Append(@, [member |-> r, copy |-> FALSE])]]
  /\ UNCHANGED <<arrays, registries, numK8SRegistries, storeLock, call, heap, stop,
                 clusterAddressesMutex>>

\* clusterAddressesMutex.Lock()
ServicesMutexLock(g) ==
  /\ goroutine[g].pc = "mutex_lock"
  /\ clusterAddressesMutex = NoGoroutine
  /\ clusterAddressesMutex' = g
  /\ goroutine' = [goroutine EXCEPT ![g].pc = "window"]
  /\ UNCHANGED <<arrays, registries, numK8SRegistries, storeLock, call, heap, stop,
                 pass>>

\* the window: the records of a member without cluster id are appended; a record
\* of a cluster-scoped member gets its canonical copy on the first sighting
\* (smap: whether the copy's ClusterVIPs is there), then sp.ClusterVIPs[...] is
\* written: into a nil map that panics and the mutex, locked without defer, stays
\* locked; otherwise clusterAddressesMutex.Unlock() and the loop goes on
ServicesWindow(g) ==
  /\ goroutine[g].pc = "window"
  /\ LET r == goroutine[g].visited[Len(goroutine[g].visited)]
         first == pass[g].smap = "none"
         sp == IF first THEN pass[g].svcs ELSE pass[g].smap
     IN IF Cluster(r) = ""
        THEN /\ pass' = [pass EXCEPT ![g].services =
                                       Append(@, [member |-> r, copy |-> FALSE]),
                                     ![g].svcs = "none"]
             /\ goroutine' = [goroutine EXCEPT ![g].pc = "scan"]
             /\ clusterAddressesMutex' = NoGoroutine
        ELSE /\ pass' = [pass EXCEPT ![g].services =
                                       IF first
                                       THEN Append(@, [member |-> r, copy |-> TRUE])
                                       ELSE @,
                                     ![g].smap = sp,
                                     ![g].svcs = "none"]
             /\ IF sp = "nilvips"
                THEN /\ goroutine' = [goroutine EXCEPT ![g].pc = "panicked"]
                     /\ clusterAddressesMutex' = clusterAddressesMutex
                ELSE /\ goroutine' = [goroutine EXCEPT ![g].pc = "scan"]
                     /\ clusterAddressesMutex' = NoGoroutine
  /\ UNCHANGED <<arrays, registries, numK8SRegistries, storeLock, call, heap, stop>>

\* return services, errs
ServicesReturn(g) ==
  /\ goroutine[g].pc = "scan"
  /\ goroutine[g].ret = "services"
  /\ goroutine[g].idx > goroutine[g].snap.len
  /\ goroutine' = [goroutine EXCEPT ![g] = Idle]
  /\ pass' = [pass EXCEPT ![g] = NoPass]
  /\ UNCHANGED <<arrays, registries, numK8SRegistries, storeLock, call, heap, stop,
                 clusterAddressesMutex>>

\* a goroutine that panicked takes no further step: the program ends, or the panic
\* is recovered further up and the caller goes on elsewhere
StepMerge(g) ==
  \/ ServicesReadCount(g)
  \/ GetRegistriesRLock(g)
  \/ GetRegistriesReturn(g)
  \/ \E answer \in MergeAnswers : ServicesFetch(g, answer)
  \/ ServicesMutexLock(g)
  \/ ServicesWindow(g)
  \/ ServicesReturn(g)
  \/ \E r \in MergeRegistries : AddRegistryLock(g, r)
  \/ AddRegistryAppend(g)
  \/ \E clusterID \in ClusterIDs : DeleteRegistryLock(g, clusterID)
  \/ DeleteRegistryFind(g)
  \/ DeleteRegistryShift(g)
  \/ DeleteRegistryStore(g)
  \/ Unlock(g)

NextMerge == \E g \in Goroutines : StepMerge(g)

\* concurrent Services() calls next to AddRegistry and DeleteRegistry
SpecMerge == InitMerge /\ [][NextMerge]_vars

\* ------------------------------------------------------------ the query router
\* a nil error
NoError == "nil"

\* serviceregistry.Kubernetes: the cluster id of the default registry
Kubernetes == "Kubernetes"

\* multierror.Append(errs, err): the aggregate lists the members' errors; nil is <<>>
MultierrorAppend(errs, err) == Append(errs, err)

\* instances[k].Endpoint.Locality.ClusterID of the instances the members return
LocalityClusterID(inst) ==
  CASE inst = "i1" -> "c1"
    [] inst = "i2" -> "c2"

\* what r.InstancesByPort(svc, port, labels) may answer: (instances, err)
InstancesByPortAnswers ==
  {[err |-> NoError, val |-> <<>>],
   [err |-> NoError, val |-> <<"i1">>],
   [err |-> NoError, val |-> <<"i2", "i1">>],
   [err |-> "e1", val |-> <<>>],
   [err |-> "e2", val |-> <<"i1">>]}

\* what r.GetProxyServiceInstances(node) may answer
ProxyInstancesAnswers ==
  {[err |-> NoError, val |-> <<>>],
   [err |-> NoError, val |-> <<"i1">>],
   [err |-> NoError, val |-> <<"i2", "i1">>],
   [err |-> "e1", val |-> <<>>]}

\* what r.GetProxyWorkloadLabels(proxy) may answer
WorkloadLabelsAnswers ==
  {[err |-> NoError, val |-> <<>>],
   [err |-> NoError, val |-> <<"l1">>],
   [err |-> NoError, val |-> <<"l2", "l1">>],
   [err |-> "e1", val |-> <<>>]}

\* the proxies of the callers: Metadata may be nil; ClusterID is the resolved cluster
Proxies ==
  {[Metadata |-> [present |-> p, ClusterID |-> c], ClusterID |-> "c0"] :
     p \in BOOLEAN, c \in {"", "c1", "c2"}} \
  {[Metadata |-> [present |-> FALSE, ClusterID |-> c], ClusterID |-> "c0"] :
     c \in {"c1", "c2"}}

\* features.ClusterName.Get(): the configured cluster id of this istiod
SelfClusterIDs == {"", "c1"}

RECURSIVE InstancesByPortLoopStopsAtError(_, _, _)
\* a scan that gives up at the first failing member
InstancesByPortLoopStopsAtError(answers, i, st) ==
  IF i > Len(answers) THEN st
  ELSE LET a == answers[i]
           called == [st EXCEPT !.invoked = Append(@, i)]
       IN IF a.err # NoError
          THEN [called EXCEPT !.errs = MultierrorAppend(@, a.err)]
          ELSE InstancesByPortLoopStopsAtError(answers, i + 1,
                 IF Len(a.val) > 0
                 THEN [called EXCEPT !.instances = @ \o a.val]
                 ELSE called)

RECURSIVE InstancesByPortLoop(_, _, _)
\* the loop of InstancesByPort over the members; st = [instances, errs, invoked]
InstancesByPortLoop(answers, i, st) ==
  IF i > Len(answers) THEN st
  ELSE LET a == answers[i]
           called == [st EXCEPT !.invoked = Append(@, i)]
       IN InstancesByPortLoop(answers, i + 1,
            IF a.err # NoError
            THEN [called EXCEPT !.errs = MultierrorAppend(@, a.err)]
            ELSE IF Len(a.val) > 0
                 THEN [called EXCEPT !.instances = @ \o a.val]
                 ELSE called)

\* InstancesByPort on the members' answers: (instances, errs) and the members invoked
InstancesByPortResult(answers) ==
  LET st == InstancesByPortLoop(answers, 1,
              [instances |-> <<>>, errs |-> <<>>, invoked |-> <<>>])
  IN [val |-> st.instances,
      err |-> IF Len(st.instances) > 0 THEN <<>> ELSE st.errs,
      invoked |-> st.invoked]

\* nodeClusterID(node)
nodeClusterID(node) ==
  IF ~node.Metadata.present \/ node.Metadata.ClusterID = ""
  THEN ""
  ELSE node.Metadata.ClusterID

\* the comparison without the remap of the default registry's id
skipSearchingRegistryNoRemap(nodeCluster, registryClusterID, selfClusterID) ==
  IF registryClusterID = "" \/ nodeCluster = ""
  THEN FALSE
  ELSE registryClusterID # nodeCluster

\* skipSearchingRegistryForProxy(nodeClusterID, registryClusterID, selfClusterID)
skipSearchingRegistryForProxy(nodeCluster, registryClusterID, selfClusterID) ==
  LET remapped == IF registryClusterID = Kubernetes THEN selfClusterID
                  ELSE registryClusterID
  IN IF remapped = "" \/ nodeCluster = ""
     THEN FALSE
     ELSE remapped # nodeCluster

RECURSIVE GetProxyServiceInstancesLoopNoBreak(_, _, _, _, _, _)
\* a scan that goes on after the first hit
GetProxyServiceInstancesLoopNoBreak(members, answers, node, selfClusterID, i, st) ==
  IF i > Len(members) THEN st
  ELSE IF skipSearchingRegistryForProxy(nodeClusterID(node), Cluster(members[i]),
                                        selfClusterID)
  THEN GetProxyServiceInstancesLoopNoBreak(members, answers, node, selfClusterID,
         i + 1, st)
  ELSE LET a == answers[i]
           called == [st EXCEPT !.invoked = Append(@, i)]
       IN GetProxyServiceInstancesLoopNoBreak(members, answers, node, selfClusterID,
            i + 1,
            IF a.err # NoError
            THEN [called EXCEPT !.errs = MultierrorAppend(@, a.err)]
            ELSE IF Len(a.val) > 0
                 THEN [called EXCEPT !.out = @ \o a.val,
                                     !.ClusterID = LocalityClusterID(a.val[1])]
                 ELSE called)

RECURSIVE GetProxyServiceInstancesLoop(_, _, _, _, _, _)
\* the loop of GetProxyServiceInstances; st = [out, errs, invoked, ClusterID]
GetProxyServiceInstancesLoop(members, answers, node, selfClusterID, i, st) ==
  IF i > Len(members) THEN st
  ELSE IF skipSearchingRegistryForProxy(nodeClusterID(node), Cluster(members[i]),
                                        selfClusterID)
  THEN GetProxyServiceInstancesLoop(members, answers, node, selfClusterID, i + 1, st)
  ELSE LET a == answers[i]
           called == [st EXCEPT !.invoked = Append(@, i)]
       IN IF a.err # NoError
          THEN GetProxyServiceInstancesLoop(members, answers, node, selfClusterID, i + 1,
                 [called EXCEPT !.errs = MultierrorAppend(@, a.err)])
          ELSE IF Len(a.val) > 0
               THEN [called EXCEPT !.out = @ \o a.val,
                                   !.ClusterID = LocalityClusterID(a.val[1])]
               ELSE GetProxyServiceInstancesLoop(members, answers, node, selfClusterID,
                      i + 1, called)

\* GetProxyServiceInstances: (out, errs), the members invoked and node.ClusterID after
GetProxyServiceInstancesResult(members, answers, node, selfClusterID) ==
  LET st == GetProxyServiceInstancesLoop(members, answers, node, selfClusterID, 1,
              [out |-> <<>>, errs |-> <<>>, invoked |-> <<>>,
               ClusterID |-> node.ClusterID])
  IN [val |-> st.out,
      err |-> IF Len(st.out) > 0 THEN <<>> ELSE st.errs,
      invoked |-> st.invoked,
      ClusterID |-> st.ClusterID]

RECURSIVE GetProxyWorkloadLabelsLoop(_, _, _)
\* the loop of GetProxyWorkloadLabels; st = [out, errs, invoked]
GetProxyWorkloadLabelsLoop(answers, i, st) ==
  IF i > Len(answers) THEN st
  ELSE LET a == answers[i]
           called == [st EXCEPT !.invoked = Append(@, i)]
       IN IF a.err # NoError
          THEN GetProxyWorkloadLabelsLoop(answers, i + 1,
                 [called EXCEPT !.errs = MultierrorAppend(@, a.err)])
          ELSE IF Len(a.val) > 0
               THEN [called EXCEPT !.out = @ \o a.val]
               ELSE GetProxyWorkloadLabelsLoop(answers, i + 1, called)

\* GetProxyWorkloadLabels: (out, errs) and the members invoked
GetProxyWorkloadLabelsResult(answers) ==
  LET st == GetProxyWorkloadLabelsLoop(answers, 1,
              [out |-> <<>>, errs |-> <<>>, invoked |-> <<>>])
  IN [val |-> st.out,
      err |-> IF Len(st.out) > 0 THEN <<>> ELSE st.errs,
      invoked |-> st.invoked]

\* A discovery call changes nothing of the controller, so one call is made from each
\* controller; the call takes its members from GetRegistries.
InstancesByPort ==
  /\ call = NoCall
  /\ CanRLock
  /\ \E answers \in [1..registries.len -> InstancesByPortAnswers] :
       call' = [op |-> "InstancesByPort",
                members |-> View(registries),
                answers |-> answers,
                result |-> InstancesByPortResult(answers)]
  /\ UNCHANGED <<arrays, registries, numK8SRegistries, storeLock, goroutine, heap,
                 stop, clusterAddressesMutex, pass>>

GetProxyServiceInstances ==
  /\ call = NoCall
  /\ CanRLock
  /\ \E answers \in [1..registries.len -> ProxyInstancesAnswers],
        node \in Proxies, selfClusterID \in SelfClusterIDs :
       call' = [op |-> "GetProxyServiceInstances",
                members |-> View(registries),
                answers |-> answers,
                node |-> node,
                selfClusterID |-> selfClusterID,
                result |-> GetProxyServiceInstancesResult(View(registries), answers,
                                                          node, selfClusterID)]
  /\ UNCHANGED <<arrays, registries, numK8SRegistries, storeLock, goroutine, heap,
                 stop, clusterAddressesMutex, pass>>

GetProxyWorkloadLabels ==
  /\ call = NoCall
  /\ CanRLock
  /\ \E answers \in [1..registries.len -> WorkloadLabelsAnswers] :
       call' = [op |-> "GetProxyWorkloadLabels",
                members |-> View(registries),
                answers |-> answers,
                result |-> GetProxyWorkloadLabelsResult(answers)]
  /\ UNCHANGED <<arrays, registries, numK8SRegistries, storeLock, goroutine, heap,
                 stop, clusterAddressesMutex, pass>>

\* ------------------------------------------------------------ the handlers
\* what r.AppendServiceHandler(f) / r.AppendInstanceHandler(f) may answer: the
\* member keeps the handler and answers nil, or fails
HandlerAnswers == {NoError, "e1", "e2"}

RECURSIVE AppendHandlerLoopKeepsGoing(_, _, _)
\* a registration that goes on after a failure and reports the last error
AppendHandlerLoopKeepsGoing(answers, i, st) ==
  IF i > Len(answers) THEN st
  ELSE AppendHandlerLoopKeepsGoing(answers, i + 1,
         IF answers[i] # NoError
         THEN [st EXCEPT !.invoked = Append(@, i), !.err = answers[i]]
         ELSE [st EXCEPT !.invoked = Append(@, i), !.registered = Append(@, i)])

RECURSIVE AppendHandlerLoop(_, _, _)
\* for _, r := range c.GetRegistries() { if err := r.Append...Handler(f); err != nil
\* { return err } }; return nil. st = [err, invoked, registered]
AppendHandlerLoop(answers, i, st) ==
  IF i > Len(answers) THEN st
  ELSE IF answers[i] # NoError
  THEN [st EXCEPT !.invoked = Append(@, i), !.err = answers[i]]
  ELSE AppendHandlerLoop(answers, i + 1,
         [st EXCEPT !.invoked = Append(@, i), !.registered = Append(@, i)])

\* the error returned, the members contacted and the members that hold the handler
AppendHandlerResult(answers) ==
  AppendHandlerLoop(answers, 1, [err |-> NoError, invoked |-> <<>>, registered |-> <<>>])

AppendServiceHandler ==
  /\ call = NoCall
  /\ CanRLock
  /\ \E answers \in [1..registries.len -> HandlerAnswers] :
       call' = [op |-> "AppendServiceHandler",
                members |-> View(registries),
                answers |-> answers,
                result |-> AppendHandlerResult(answers)]
  /\ UNCHANGED <<arrays, registries, numK8SRegistries, storeLock, goroutine, heap,
                 stop, clusterAddressesMutex, pass>>

AppendInstanceHandler ==
  /\ call = NoCall
  /\ CanRLock
  /\ \E answers \in [1..registries.len -> HandlerAnswers] :
       call' = [op |-> "AppendInstanceHandler",
                members |-> View(registries),
                answers |-> answers,
                result |-> AppendHandlerResult(answers)]
  /\ UNCHANGED <<arrays, registries, numK8SRegistries, storeLock, goroutine, heap,
                 stop, clusterAddressesMutex, pass>>

NextRouter ==
  \/ InstancesByPort
  \/ GetProxyServiceInstances
  \/ GetProxyWorkloadLabels
  \/ AppendServiceHandler
  \/ AppendInstanceHandler

\* the router operations applied to every controller of InitRouter
SpecRouter == InitRouter /\ [][NextRouter]_vars

\* ------------------------------------------------------------ model.Service on a heap
\* *model.Service records, their maps and the values of the cluster-keyed maps
\* ([]string, map[uint32]uint32) are objects of a heap: svc, map and ent objects,
\* each addressed by its index. NilRef is the nil pointer, map or slice.
NilRef == 0

EmptyHeap == [svc |-> <<>>, map |-> <<>>, ent |-> <<>>]

\* statements run in sequence: F applied to the value x has once it is computed
Then(x, F(_)) == CHOOSE r \in {F(v) : v \in {x}} : TRUE

AllocEnt(h, content) ==
  [heap |-> [h EXCEPT !.ent = Append(@, content)], ref |-> Len(h.ent) + 1]

AllocMap(h, m) ==
  [heap |-> [h EXCEPT !.map = Append(@, m)], ref |-> Len(h.map) + 1]

AllocSvc(h, s) ==
  [heap |-> [h EXCEPT !.svc = Append(@, s)], ref |-> Len(h.svc) + 1]

\* m[k] = v on a Go map value
MapPut(m, k, v) == [x \in (DOMAIN m) \cup {k} |-> IF x = k THEN v ELSE m[x]]

\* m[k] read from the map object mref: the zero value when the key is missing
MapGet(h, mref, k) ==
  IF k \in DOMAIN h.map[mref] THEN h.map[mref][k] ELSE NilRef

\* the primary address (VIP) a registry reports for its services
AddressOf(r) ==
  CASE r = "ra" -> "a0"
    [] r = "rb" -> "a1"
    [] r = "rc" -> "a2"
    [] r = "rd" -> "a3"
    [] r = "re" -> "a4"
    [] r = "rk" -> "a5"

Hostnames == {"h1", "h2"}

\* the Service records a registry may hold: ClusterVIPs is nil, empty or holds an
\* entry of another cluster; ClusterExternalAddresses / ClusterExternalPorts are
\* nil or hold the entry of the registry's own cluster
ServiceShapes ==
  {[Hostname |-> "h1", vips |-> "empty", cea |-> "nil", cep |-> "nil"],
   [Hostname |-> "h1", vips |-> "empty", cea |-> "own", cep |-> "own"],
   [Hostname |-> "h1", vips |-> "empty", cea |-> "own", cep |-> "nil"],
   [Hostname |-> "h1", vips |-> "nil", cea |-> "nil", cep |-> "nil"],
   [Hostname |-> "h1", vips |-> "other", cea |-> "nil", cep |-> "own"],
   [Hostname |-> "h2", vips |-> "empty", cea |-> "nil", cep |-> "nil"]}

\* the record of shape `shape` of registry r, laid out on the heap
LoadService(h, r, shape) ==
  LET own(hh, tag, what) ==
        IF tag = "own"
        THEN Then(AllocEnt(hh, <<what, r>>),
                  LAMBDA e : AllocMap(e.heap, MapPut(<<>>, Cluster(r), e.ref)))
        ELSE [heap |-> hh, ref |-> NilRef]
      vipsOf(hh) ==
        CASE shape.vips = "nil" -> [heap |-> hh, ref |-> NilRef]
          [] shape.vips = "empty" -> AllocMap(hh, <<>>)
          [] shape.vips = "other" -> AllocMap(hh, MapPut(<<>>, "c9", "a9"))
  IN Then(own(h, shape.cea, "lb"), LAMBDA cea :
     Then(own(cea.heap, shape.cep, "np"), LAMBDA cep :
     Then(vipsOf(cep.heap), LAMBDA vips :
       AllocSvc(vips.heap,
         [Hostname |-> shape.Hostname,
          Address |-> AddressOf(r),
          ClusterVIPs |-> vips.ref,
          ClusterExternalAddresses |-> cea.ref,
          ClusterExternalPorts |-> cep.ref]))))

RECURSIVE LoadServices(_, _, _)
\* the records of one registry: [heap, refs]
LoadServices(h, r, shapes) ==
  IF shapes = <<>> THEN [heap |-> h, refs |-> <<>>]
  ELSE Then(LoadServices(h, r, SubSeq(shapes, 1, Len(shapes) - 1)), LAMBDA front :
       Then(LoadService(front.heap, r, shapes[Len(shapes)]), LAMBDA last :
         [heap |-> last.heap, refs |-> Append(front.refs, last.ref)]))

RECURSIVE LoadAnswers(_, _, _)
\* the records of all members: [heap, refs], refs[i] the list member i answers
LoadAnswers(h, members, answers) ==
  IF members = <<>> THEN [heap |-> h, refs |-> <<>>]
  ELSE LET n == Len(members)
       IN Then(LoadAnswers(h, SubSeq(members, 1, n - 1), SubSeq(answers, 1, n - 1)),
               LAMBDA front :
          Then(LoadServices(front.heap, members[n], answers[n].val), LAMBDA last :
            [heap |-> last.heap, refs |-> Append(front.refs, last.refs)]))

RECURSIVE CopyEntries(_, _, _, _)
\* the entries of map m copied one by one into fresh ent objects: [heap, m]
CopyEntries(h, m, keys, acc) ==
  IF keys = {} THEN [heap |-> h, m |-> acc]
  ELSE LET k == CHOOSE x \in keys : TRUE
       IN Then(IF m[k] = NilRef THEN [heap |-> h, ref |-> NilRef]
               ELSE AllocEnt(h, h.ent[m[k]]),
               LAMBDA e : CopyEntries(e.heap, m, keys \ {k}, MapPut(acc, k, e.ref)))

\* s.DeepCopy(): a new record with new maps and new map values
DeepCopy(h, sref) ==
  LET s == h.svc[sref]
      deep(hh, mref) ==
        IF mref = NilRef THEN [heap |-> hh, ref |-> NilRef]
        ELSE Then(CopyEntries(hh, hh.map[mref], DOMAIN hh.map[mref], <<>>),
                  LAMBDA c : AllocMap(c.heap, c.m))
  IN Then(IF s.ClusterVIPs = NilRef THEN [heap |-> h, ref |-> NilRef]
          ELSE AllocMap(h, h.map[s.ClusterVIPs]), LAMBDA vips :
     Then(deep(vips.heap, s.ClusterExternalAddresses), LAMBDA cea :
     Then(deep(cea.heap, s.ClusterExternalPorts), LAMBDA cep :
       AllocSvc(cep.heap, [s EXCEPT !.ClusterVIPs = vips.ref,
                                    !.ClusterExternalAddresses = cea.ref,
                                    !.ClusterExternalPorts = cep.ref]))))

\* ------------------------------------------------------------ Services
\* m[cluster] = v on the map `target` of the canonical copy; a write into a nil
\* map panics. st = [heap, services, smap, errs, invoked, panic]
PutEntry(st, target, cluster, v) ==
  IF st.panic THEN st
  ELSE IF target = NilRef THEN [st EXCEPT !.panic = TRUE]
  ELSE [st EXCEPT !.heap.map[target] = MapPut(@, cluster, v)]

\* sp, ok := smap[s.Hostname]; the first sighting makes the copy: [st, sp]
CanonicalCopy(st, s) ==
  IF st.heap.svc[s].Hostname \in DOMAIN st.smap
  THEN [st |-> st, sp |-> st.smap[st.heap.svc[s].Hostname]]
  ELSE Then(DeepCopy(st.heap, s), LAMBDA copy :
         [st |-> [st EXCEPT !.heap = copy.heap,
                            !.smap = MapPut(@, st.heap.svc[s].Hostname, copy.ref),
                            !.services = Append(@, copy.ref)],
          sp |-> copy.ref])

\* the contribution of record s (of a member of cluster id `cluster`) to sp
Contribute(st, sp, cluster, s) ==
  LET clusterExternalAddresses == st.heap.svc[s].ClusterExternalAddresses
      clusterExternalPorts == st.heap.svc[s].ClusterExternalPorts
  IN Then(IF clusterExternalAddresses # NilRef
          THEN PutEntry(st, st.heap.svc[sp].ClusterExternalAddresses, cluster,
                        MapGet(st.heap, clusterExternalAddresses, cluster))
          ELSE st, LAMBDA st2 :
     Then(IF ~st2.panic /\ clusterExternalPorts # NilRef
          THEN PutEntry(st2, st2.heap.svc[sp].ClusterExternalPorts, cluster,
                        MapGet(st2.heap, clusterExternalPorts, cluster))
          ELSE st2, LAMBDA st3 :
       PutEntry(st3, st3.heap.svc[sp].ClusterVIPs, cluster, st3.heap.svc[s].Address)))

\* s merged into its canonical copy, for a member of cluster id `cluster`
MergeService(st, cluster, s) ==
  Then(CanonicalCopy(st, s), LAMBDA c : Contribute(c.st, c.sp, cluster, s))

RECURSIVE MergeServices(_, _, _, _)
\* for _, s := range svcs, in a cluster-scoped member
MergeServices(st, cluster, svcs, j) ==
  IF j > Len(svcs) \/ st.panic THEN st
  ELSE Then(MergeService(st, cluster, svcs[j]),
            LAMBDA next : MergeServices(next, cluster, svcs, j + 1))

RECURSIVE ServicesLoopStopsAtError(_, _, _, _, _, _)
\* a Services loop that gives up at the first member that fails
ServicesLoopStopsAtError(members, answers, refs, merge, i, st) ==
  IF i > Len(members) THEN st
  ELSE IF answers[i].err # NoError
  THEN [st EXCEPT !.invoked = Append(@, i),
                  !.errs = MultierrorAppend(@, answers[i].err)]
  ELSE Then([st EXCEPT !.invoked = Append(@, i), !.services = @ \o refs[i]],
            LAMBDA next :
              ServicesLoopStopsAtError(members, answers, refs, merge, i + 1, next))

RECURSIVE ServicesLoop(_, _, _, _, _, _)
\* the loop over the members: the fast path (merge = FALSE) or the merge path
ServicesLoop(members, answers, refs, merge, i, st) ==
  IF i > Len(members) \/ st.panic THEN st
  ELSE LET a == answers[i]
           called == [st EXCEPT !.invoked = Append(@, i)]
       IN Then(IF a.err # NoError
               THEN [called EXCEPT !.errs = MultierrorAppend(@, a.err)]
               ELSE IF ~merge \/ Cluster(members[i]) = ""
                    THEN [called EXCEPT !.services = @ \o refs[i]]
                    ELSE Then(called, LAMBDA c :
                           MergeServices(c, Cluster(members[i]), refs[i], 1)),
               LAMBDA next : ServicesLoop(members, answers, refs, merge, i + 1, next))

\* Services(): the records returned (by reference), the error, whether the call
\* panicked, the members invoked and the heap the call leaves
ServicesResult(h, members, answers, refs, numK8S) ==
  Then(ServicesLoop(members, answers, refs, numK8S > 1, 1,
         [heap |-> h, services |-> <<>>, smap |-> <<>>, errs |-> <<>>,
          invoked |-> <<>>, panic |-> FALSE]), LAMBDA st :
    [val |-> st.services, err |-> st.errs, panic |-> st.panic,
     invoked |-> st.invoked, merged |-> numK8S > 1, heap |-> st.heap])

\* what r.Services() may answer: (svcs, err)
ServicesAnswers ==
  {[err |-> "e1", val |-> <<>>], [err |-> NoError, val |-> <<>>]}
  \cup {[err |-> NoError, val |-> <<s>>] : s \in ServiceShapes}
  \cup {[err |-> NoError,
         val |-> <<[Hostname |-> "h1", vips |-> "empty", cea |-> "nil", cep |-> "nil"],
                   [Hostname |-> "h2", vips |-> "empty", cea |-> "nil", cep |-> "nil"]>>]}

\* ------------------------------------------------------------ GetService
RECURSIVE GetServiceLoop(_, _, _, _, _, _)
\* the loop over the members; st = [heap, out, errs, invoked, panic]. The early
\* returns (service, nil) drop the errors collected so far.
GetServiceLoop(members, answers, refs, merge, i, st) ==
  IF i > Len(members) \/ st.panic THEN st
  ELSE LET a == answers[i]
           called == [st EXCEPT !.invoked = Append(@, i)]
           continue(next) == GetServiceLoop(members, answers, refs, merge, i + 1, next)
       IN IF a.err # NoError
          THEN Then([called EXCEPT !.errs = MultierrorAppend(@, a.err)],
                    LAMBDA next : continue(next))
          ELSE IF refs[i] = <<>>
          THEN Then(called, LAMBDA next : continue(next))
          ELSE IF ~merge \/ Cluster(members[i]) = ""
          THEN [called EXCEPT !.out = refs[i][1], !.errs = <<>>]
          ELSE IF st.out = NilRef
          THEN Then(DeepCopy(st.heap, refs[i][1]), LAMBDA copy :
                 continue([called EXCEPT !.heap = copy.heap, !.out = copy.ref]))
          ELSE Then(Contribute(called, st.out, Cluster(members[i]), refs[i][1]),
                    LAMBDA next : continue(next))

\* GetService(hostname): the record returned (NilRef for nil), the error, whether
\* the call panicked, the members invoked and the heap the call leaves
GetServiceResult(h, members, answers, refs, numK8S) ==
  Then(GetServiceLoop(members, answers, refs, numK8S > 1, 1,
         [heap |-> h, out |-> NilRef, errs |-> <<>>, invoked |-> <<>>,
          panic |-> FALSE]), LAMBDA st :
    [val |-> IF st.out = NilRef THEN <<>> ELSE <<st.out>>,
     err |-> st.errs, panic |-> st.panic,
     invoked |-> st.invoked, merged |-> numK8S > 1, heap |-> st.heap])

\* what r.GetService("h1") may answer: (service, err), service nil or a record
GetServiceAnswers ==
  {[err |-> "e1", val |-> <<>>], [err |-> NoError, val |-> <<>>]}
  \cup {[err |-> NoError, val |-> <<s>>] : s \in {x \in ServiceShapes : x.Hostname = "h1"}}

\* ------------------------------------------------------------ what a caller sees
\* a map as the caller reads it: nil or its entries, map values by their content
MapContent(h, mref, byRef) ==
  IF mref = NilRef THEN [nil |-> TRUE, m |-> <<>>]
  ELSE [nil |-> FALSE,
        m |-> [k \in DOMAIN h.map[mref] |->
                 IF ~byRef THEN <<h.map[mref][k]>>
                 ELSE IF h.map[mref][k] = NilRef THEN <<>>
                 ELSE h.ent[h.map[mref][k]]]]

\* a Service record as the caller reads it
ServiceContent(h, sref) ==
  [Hostname |-> h.svc[sref].Hostname,
   Address |-> h.svc[sref].Address,
   ClusterVIPs |-> MapContent(h, h.svc[sref].ClusterVIPs, FALSE),
   ClusterExternalAddresses |-> MapContent(h, h.svc[sref].ClusterExternalAddresses, TRUE),
   ClusterExternalPorts |-> MapContent(h, h.svc[sref].ClusterExternalPorts, TRUE)]

\* the records of a result as the caller reads them
Contents(h, refs) == [k \in 1..Len(refs) |-> ServiceContent(h, refs[k])]

\* ------------------------------------------------------------ the calls
\* the registries' records are laid out on the heap, then the call runs on them
Services ==
  /\ call = NoCall
  /\ CanRLock
  /\ \E answers \in [1..registries.len -> ServicesAnswers],
        members \in {View(registries)} :
     \E loaded \in {LoadAnswers(EmptyHeap, members, answers)} :
     \E res \in {ServicesResult(loaded.heap, members, answers, loaded.refs,
                 numK8SRegistries)} :
          /\ heap' = res.heap
          /\ call' = [op |-> "Services", members |-> members, answers |-> answers,
                      refs |-> loaded.refs, before |-> loaded.heap,
                      result |-> [val |-> res.val, err |-> res.err,
                                  panic |-> res.panic, invoked |-> res.invoked,
                                  merged |-> res.merged],
                      returned |-> Contents(res.heap, res.val),
                      changed |-> FALSE]
  /\ UNCHANGED <<arrays, registries, numK8SRegistries, storeLock, goroutine, stop,
                 clusterAddressesMutex, pass>>

GetService ==
  /\ call = NoCall
  /\ CanRLock
  /\ \E answers \in [1..registries.len -> GetServiceAnswers],
        members \in {View(registries)} :
     \E loaded \in {LoadAnswers(EmptyHeap, members, answers)} :
     \E res \in {GetServiceResult(loaded.heap, members, answers, loaded.refs,
                 numK8SRegistries)} :
          /\ heap' = res.heap
          /\ call' = [op |-> "GetService", members |-> members, answers |-> answers,
                      refs |-> loaded.refs, before |-> loaded.heap,
                      result |-> [val |-> res.val, err |-> res.err,
                                  panic |-> res.panic, invoked |-> res.invoked,
                                  merged |-> res.merged],
                      returned |-> Contents(res.heap, res.val),
                      changed |-> FALSE]
  /\ UNCHANGED <<arrays, registries, numK8SRegistries, storeLock, goroutine, stop,
                 clusterAddressesMutex, pass>>

\* After the call the registries change their own records in place: every record's
\* Address, every ClusterVIPs map and every value of the cluster-keyed maps that a
\* registry owns (the objects laid out before the call).
RegistriesChangeRecords ==
  /\ call.op \in {"Services", "GetService"}
  /\ ~call.changed
  /\ ~call.result.panic
  /\ call.result.val # <<>>
  /\ LET owned == call.before
         vipMaps == {owned.svc[s].ClusterVIPs : s \in 1..Len(owned.svc)} \ {NilRef}
     IN heap' =
          [svc |-> [s \in 1..Len(heap.svc) |->
                      IF s <= Len(owned.svc)
                      THEN [heap.svc[s] EXCEPT !.Address = "changed"]
                      ELSE heap.svc[s]],
           map |-> [m \in 1..Len(heap.map) |->
                      IF m \in vipMaps THEN MapPut(heap.map[m], "c8", "changed")
                      ELSE heap.map[m]],
           ent |-> [e \in 1..Len(heap.ent) |->
                      IF e <= Len(owned.ent) THEN <<"changed">> ELSE heap.ent[e]]]
  /\ call' = [call EXCEPT !.changed = TRUE]
  /\ UNCHANGED <<arrays, registries, numK8SRegistries, storeLock, goroutine, stop,
                 clusterAddressesMutex, pass>>

NextServices ==
  \/ Services
  \/ GetService
  \/ RegistriesChangeRecords

\* Services and GetService applied to every controller of InitServices
SpecServices == InitServices /\ [][NextServices]_vars

\* ------------------------------------------------------------------ C1
\* C1: AddRegistry and DeleteRegistry never block on anything but other callers'
\* use of the set lock: a goroutine that holds the exclusive set lock can always
\* take its next step (and so reaches its recount and its deferred Unlock).
C1_LockHolderNeverBlocked ==
  \A g \in Goroutines : storeLock.writer = g => ENABLED Step(g)

\* ------------------------------------------------------------------ C2
\* C2: the cached count is recomputed whenever membership changes: whenever the
\* count differs from the number of members with a non-empty cluster id (an Add
\* or Remove is under way), a state follows in which no AddRegistry/DeleteRegistry
\* holds the exclusive set lock and the count equals that number again.
C2_CountRecomputed ==
  [](numK8SRegistries # CountK8S(View(registries))
       => <>(/\ storeLock.writer = NoGoroutine
             /\ numK8SRegistries = CountK8S(View(registries))))

\* ------------------------------------------------------------------ C3
\* C3: the sequence GetRegistries returned is a copy: while a query scans it, its
\* elements are the members present when it was taken, and the members visited so
\* far are exactly the first ones of these, each once and in registration order.
C3_SnapshotIsCopy ==
  \A g \in Goroutines :
    goroutine[g].pc = "scan" =>
      /\ View(goroutine[g].snap) = goroutine[g].taken
      /\ goroutine[g].visited = SubSeq(goroutine[g].taken, 1, goroutine[g].idx - 1)

\* ------------------------------------------------------------------ C4
\* the discovery call has returned (a panicking call returns nothing)
Returned ==
  /\ call.op # "none"
  /\ call.op \in {"Services", "GetService"} => ~call.result.panic

\* the cluster-scoped members that report a record with hostname h without error
SightingsOf(h) ==
  {i \in 1..Len(call.members) :
     /\ Cluster(call.members[i]) # ""
     /\ call.answers[i].err = NoError
     /\ \E k \in 1..Len(call.answers[i].val) : call.answers[i].val[k].Hostname = h}

\* the members without cluster id that report a record with hostname h
PlainSightingsOf(h) ==
  {i \in 1..Len(call.members) :
     /\ Cluster(call.members[i]) = ""
     /\ call.answers[i].err = NoError
     /\ \E k \in 1..Len(call.answers[i].val) : call.answers[i].val[k].Hostname = h}

\* ClusterVIPs with exactly the entries Ci:Ai of the members in S
ExpectedClusterVIPs(S) ==
  [nil |-> FALSE,
   m |-> [c \in {Cluster(call.members[i]) : i \in S} |->
            <<AddressOf(call.members[CHOOSE i \in S : Cluster(call.members[i]) = c])>>]]

\* C4: with more than one cluster-scoped member, when cluster-scoped members with
\* cluster ids C1..Cn report a service with the same hostname and the primary
\* addresses A1..An, Services() returns exactly one record for that hostname and
\* the ClusterVIPs of that record has exactly the entries {C1:A1, ..., Cn:An}.
C4_MergedClusterVIPs ==
  (call.op = "Services" /\ CountK8S(call.members) > 1) =>
    \A h \in Hostnames :
      (Cardinality(SightingsOf(h)) > 1 /\ PlainSightingsOf(h) = {}) =>
        /\ ~call.result.panic
        /\ Cardinality({k \in 1..Len(call.returned) : call.returned[k].Hostname = h}) = 1
        /\ \A k \in 1..Len(call.returned) :
             call.returned[k].Hostname = h =>
               call.returned[k].ClusterVIPs = ExpectedClusterVIPs(SightingsOf(h))

\* ------------------------------------------------------------------ C5
RECURSIVE RecordsWithoutError(_, _)
\* the record lists of the members that answered without error, in member order
RecordsWithoutError(answers, refs) ==
  IF answers = <<>> THEN <<>>
  ELSE LET n == Len(answers)
       IN RecordsWithoutError(SubSeq(answers, 1, n - 1), SubSeq(refs, 1, n - 1))
          \o (IF answers[n].err = NoError THEN refs[n] ELSE <<>>)

\* C5: when at most one member is cluster-scoped, Services() invokes every member
\* (also after a failure) and returns the concatenation, in member order, of the
\* record lists of the members that did not fail: the members' own records, every
\* one of them (no hostname deduplication), and no record is changed by the call.
C5_FastPathConcatenation ==
  (call.op = "Services" /\ CountK8S(call.members) <= 1) =>
    /\ ~call.result.panic
    /\ call.result.invoked = [i \in 1..Len(call.members) |-> i]
    /\ call.result.val = RecordsWithoutError(call.answers, call.refs)
    /\ call.returned = Contents(call.before, call.result.val)
    /\ ~call.changed => heap = call.before

\* one cluster-scoped member; the first member fails and the two after it both
\* report hostname h1: both records are returned, in member order
C5_Witness ==
  /\ call.op = "Services"
  /\ CountK8S(call.members) = 1
  /\ Len(call.members) = 3
  /\ call.answers[1].err # NoError
  /\ Len(call.answers[2].val) = 1
  /\ Len(call.answers[3].val) = 2
  /\ call.answers[2].val[1].Hostname = "h1"
  /\ call.answers[3].val[1].Hostname = "h1"
  /\ call.result.val = call.refs[2] \o call.refs[3]
  /\ call.returned[1].Hostname = "h1"
  /\ call.returned[2].Hostname = "h1"
  /\ call.returned[1].Address # call.returned[2].Address

\* ------------------------------------------------------------------ C6
\* C6: for every discovery operation that returns an error value (Services,
\* GetService, InstancesByPort, GetProxyServiceInstances, GetProxyWorkloadLabels),
\* whenever the returned result is usable (a non-empty list, a non-nil value) the
\* returned error is nil, even if members failed.
C6_SuccessMasksErrors ==
  (Returned /\ call.result.val # <<>>) => call.result.err = <<>>

\* ------------------------------------------------------------------ C8
\* the records of the result that are canonical copies made by the pass
CanonicalRecords ==
  {k \in 1..Len(call.result.val) : call.result.val[k] > Len(call.before.svc)}

\* the objects the registries own are as they were before the call
MemberRecordsUntouched ==
  /\ SubSeq(heap.svc, 1, Len(call.before.svc)) = call.before.svc
  /\ SubSeq(heap.map, 1, Len(call.before.map)) = call.before.map
  /\ SubSeq(heap.ent, 1, Len(call.before.ent)) = call.before.ent

\* C8: in a multi-cluster merge pass (Services or GetService) the canonical record
\* shares no mutable part with a member's record: the pass writes to no record,
\* map or map value a member owns, and once the members change their records in
\* place (the per-cluster entries of their cluster-keyed maps included) the
\* canonical records read as they did when they were returned.
C8_DeepCopyIsolation ==
  (/\ call.op \in {"Services", "GetService"}
   /\ CountK8S(call.members) > 1
   /\ ~call.result.panic) =>
    /\ ~call.changed => MemberRecordsUntouched
    /\ call.changed =>
         \A k \in CanonicalRecords :
           ServiceContent(heap, call.result.val[k]) = call.returned[k]

\* ------------------------------------------------------------------ C7
RECURSIVE ValuesWithoutError(_)
\* the lists of the answers that carry no error, concatenated in member order
ValuesWithoutError(answers) ==
  IF answers = <<>> THEN <<>>
  ELSE LET last == answers[Len(answers)]
       IN ValuesWithoutError(SubSeq(answers, 1, Len(answers) - 1))
          \o (IF last.err = NoError THEN last.val ELSE <<>>)

RECURSIVE ErrorsOf(_)
\* the errors of the answers, in member order
ErrorsOf(answers) ==
  IF answers = <<>> THEN <<>>
  ELSE LET last == answers[Len(answers)]
       IN ErrorsOf(SubSeq(answers, 1, Len(answers) - 1))
          \o (IF last.err = NoError THEN <<>> ELSE <<last.err>>)

\* C7: InstancesByPort queries every member of the snapshot exactly once in member
\* order, also after a failure; its result is the concatenation in member order of
\* the lists of the members that returned without error; the error is nil when the
\* result is non-empty and otherwise the aggregate of all member errors.
C7_InstancesByPort ==
  call.op = "InstancesByPort" =>
    /\ call.result.invoked = [i \in 1..Len(call.members) |-> i]
    /\ call.result.val = ValuesWithoutError(call.answers)
    /\ call.result.err = IF call.result.val # <<>> THEN <<>>
                         ELSE ErrorsOf(call.answers)

\* a member fails, a later member answers instances, and the call returns them
C7_Witness ==
  /\ call.op = "InstancesByPort"
  /\ \E i, j \in 1..Len(call.members) :
       /\ i < j
       /\ call.answers[i].err # NoError
       /\ call.answers[i].val # <<>>
       /\ call.answers[j].err = NoError
       /\ call.answers[j].val # <<>>
  /\ call.result.val # <<>>
  /\ call.result.err = <<>>

\* ------------------------------------------------------------------ C9
\* the member's cluster id with the sentinel "Kubernetes" replaced by the self id
RemappedCluster(i) ==
  IF Cluster(call.members[i]) = "Kubernetes" THEN call.selfClusterID
  ELSE Cluster(call.members[i])

\* the proxy's metadata cluster id ("" without metadata)
MetadataCluster ==
  IF call.node.Metadata.present THEN call.node.Metadata.ClusterID ELSE ""

\* the member cannot own the proxy: both ids are known and differ
Mismatch(i) ==
  /\ RemappedCluster(i) # ""
  /\ MetadataCluster # ""
  /\ RemappedCluster(i) # MetadataCluster

\* member i answers a non-empty list without error and is not mismatched
Hit(i) ==
  /\ ~Mismatch(i)
  /\ call.answers[i].err = NoError
  /\ call.answers[i].val # <<>>

\* the scan gets to member i: no member before it is a hit
Reached(i) == \A j \in 1..(i - 1) : ~Hit(j)

InvokedSet == {call.result.invoked[k] : k \in 1..Len(call.result.invoked)}

\* C9: GetProxyServiceInstances never invokes a member whose (remapped) cluster id
\* is non-empty and differs from the proxy's non-empty metadata cluster id, and it
\* invokes every other member it reaches.
C9_ClusterAffinity ==
  call.op = "GetProxyServiceInstances" =>
    \A i \in 1..Len(call.members) :
      /\ Mismatch(i) => i \notin InvokedSet
      /\ (Reached(i) /\ ~Mismatch(i)) => i \in InvokedSet

\* the default registry is skipped for a proxy of another cluster than the self id,
\* and a registry named like the proxy's cluster is invoked
C9_Witness ==
  /\ call.op = "GetProxyServiceInstances"
  /\ \E i, j \in 1..Len(call.members) :
       /\ Cluster(call.members[i]) = "Kubernetes"
       /\ call.selfClusterID = "c1"
       /\ MetadataCluster = "c2"
       /\ i \notin InvokedSet
       /\ i < j
       /\ Cluster(call.members[j]) = "c2"
       /\ j \in InvokedSet

\* ------------------------------------------------------------------ C10
\* C10: GetProxyServiceInstances is first-hit-wins: the result is the list of the
\* first non-skipped member that answers a non-empty list without error, no member
\* after it is invoked, and the proxy's resolved cluster id is the locality cluster
\* id of that list's first instance; without a hit the proxy is unchanged and the
\* result is empty.
C10_FirstHitWins ==
  call.op = "GetProxyServiceInstances" =>
    IF \E i \in 1..Len(call.members) : Hit(i)
    THEN LET first == CHOOSE i \in 1..Len(call.members) : Hit(i) /\ Reached(i)
         IN /\ call.result.val = call.answers[first].val
            /\ \A j \in InvokedSet : j <= first
            /\ call.result.ClusterID = LocalityClusterID(call.answers[first].val[1])
    ELSE /\ call.result.val = <<>>
         /\ call.result.ClusterID = call.node.ClusterID

\* a member fails, the next one is the hit, and a later member that would answer
\* instances too is not invoked
C10_Witness ==
  /\ call.op = "GetProxyServiceInstances"
  /\ \E i \in 2..(Len(call.members) - 1) :
       /\ call.answers[i - 1].err # NoError
       /\ (i - 1) \in InvokedSet
       /\ Hit(i)
       /\ Reached(i)
       /\ Hit(i + 1)
       /\ (i + 1) \notin InvokedSet
       /\ call.result.val = call.answers[i].val
       /\ call.result.ClusterID # call.node.ClusterID

\* ------------------------------------------------------------------ C11
\* C11: AppendServiceHandler and AppendInstanceHandler register the handler with
\* the members in set order and fail fast: when member k is the first that fails,
\* the call returns member k's error, the members before k hold the handler and
\* no member after k is contacted; when none fails every member holds the handler
\* and the call returns nil.
C11_HandlersFailFast ==
  call.op \in {"AppendServiceHandler", "AppendInstanceHandler"} =>
    LET n == Len(call.members)
        failing == {i \in 1..n : call.answers[i] # NoError}
    IN IF failing # {}
       THEN LET k == CHOOSE i \in failing : \A j \in failing : i <= j
            IN /\ call.result.err = call.answers[k]
               /\ call.result.registered = [i \in 1..(k - 1) |-> i]
               /\ call.result.invoked = [i \in 1..k |-> i]
       ELSE /\ call.result.err = NoError
            /\ call.result.registered = [i \in 1..n |-> i]
            /\ call.result.invoked = [i \in 1..n |-> i]

\* three members, the second fails with e1 and the third would fail with e2: the
\* first holds the handler, e1 is returned and the third is not contacted
C11_Witness ==
  /\ call.op = "AppendServiceHandler"
  /\ Len(call.members) = 3
  /\ call.answers = <<NoError, "e1", "e2">>
  /\ call.result.err = "e1"
  /\ call.result.registered = <<1>>
  /\ call.result.invoked = <<1, 2>>

\* ------------------------------------------------------------------ C12
\* C12: with more than one cluster-scoped member, when every member that reports
\* h1 is cluster-scoped, GetService(h1) scans all members and yields one canonical
\* record whose ClusterVIPs has the entry Ci:Ai for every cluster-scoped member
\* that reported h1, the first one seen included.
C12_GetServiceMergesLikeServices ==
  (/\ call.op = "GetService"
   /\ CountK8S(call.members) > 1
   /\ SightingsOf("h1") # {}
   /\ PlainSightingsOf("h1") = {}) =>
    /\ ~call.result.panic
    /\ call.result.invoked = [i \in 1..Len(call.members) |-> i]
    /\ Len(call.returned) = 1
    /\ ~call.returned[1].ClusterVIPs.nil
    /\ \A i \in SightingsOf("h1") :
         /\ Cluster(call.members[i]) \in DOMAIN call.returned[1].ClusterVIPs.m
         /\ call.returned[1].ClusterVIPs.m[Cluster(call.members[i])]
              = <<AddressOf(call.members[i])>>

\* ------------------------------------------------------------------ C13
RECURSIVE ExpectedLayout(_, _)
\* what a merge pass of Services() puts out from member i on, `seen` the hostnames
\* that have a canonical record: the records of a member without cluster id as
\* they are, and a new canonical record (written 0) per hostname first seen
ExpectedLayout(i, seen) ==
  IF i > Len(call.members) THEN <<>>
  ELSE IF call.answers[i].err # NoError THEN ExpectedLayout(i + 1, seen)
  ELSE IF Cluster(call.members[i]) = ""
  THEN call.refs[i] \o ExpectedLayout(i + 1, seen)
  ELSE LET names == {call.answers[i].val[k].Hostname :
                       k \in 1..Len(call.answers[i].val)}
       IN [k \in 1..Cardinality(names \ seen) |-> 0]
          \o ExpectedLayout(i + 1, seen \cup names)

\* the output with every canonical record written 0
Layout ==
  [k \in 1..Len(call.result.val) |->
     IF k \in CanonicalRecords THEN 0 ELSE call.result.val[k]]

\* C13: in a multi-cluster Services() pass every record of a member without
\* cluster id is in the output, itself and unchanged, at its place in member
\* order and whatever the hostnames of the other records; no canonical record
\* gets an entry under that member's (empty) cluster id.
C13_PlainMembersPassThrough ==
  (call.op = "Services" /\ CountK8S(call.members) > 1) =>
    /\ ~call.result.panic
    /\ Layout = ExpectedLayout(1, {})
    /\ ~call.changed => MemberRecordsUntouched
    /\ \A k \in CanonicalRecords :
         /\ "" \notin DOMAIN call.returned[k].ClusterVIPs.m
         /\ "" \notin DOMAIN call.returned[k].ClusterExternalAddresses.m
         /\ "" \notin DOMAIN call.returned[k].ClusterExternalPorts.m

\* ------------------------------------------------------------------ C14
\* s without its first member of cluster id clusterID
WithoutFirst(s, clusterID) ==
  LET k == CHOOSE i \in 1..Len(s) :
             /\ Cluster(s[i]) = clusterID
             /\ \A j \in 1..(i - 1) : Cluster(s[j]) # clusterID
  IN SubSeq(s, 1, k - 1) \o SubSeq(s, k + 1, Len(s))

\* goroutine g runs DeleteRegistry and has stored the new member sequence
DeleteStored(g) ==
  /\ goroutine[g].pc \in {"rlock", "rlocked", "unlock"}
  /\ goroutine[g].ret = "recount"
  /\ goroutine[g].arg \in ClusterIDs

\* C14: DeleteRegistry(clusterID), when some member has that cluster id, removes
\* exactly one member, the first in sequence order with that cluster id, and the
\* other members keep their relative order.
C14_DeleteRemovesFirstMatch ==
  \A g \in Goroutines :
    DeleteStored(g) =>
      View(registries) = WithoutFirst(goroutine[g].taken, goroutine[g].arg)

\* of three members two have cluster id c1 and the first of them is not the first
\* member: DeleteRegistry("c1") leaves the other two in order
C14_Witness ==
  \E g \in Goroutines :
    /\ DeleteStored(g)
    /\ goroutine[g].arg = "c1"
    /\ Len(goroutine[g].taken) = 3
    /\ Cluster(goroutine[g].taken[1]) # "c1"
    /\ Cluster(goroutine[g].taken[2]) = "c1"
    /\ Cluster(goroutine[g].taken[3]) = "c1"
    /\ View(registries) = <<goroutine[g].taken[1], goroutine[g].taken[3]>>

\* ------------------------------------------------------------------ C15
\* goroutine g is inside a DeleteRegistry call that finds nothing to delete: the
\* set is empty or no member has the cluster id asked for
NoOpDelete(g) ==
  /\ storeLock.writer = g
  /\ goroutine[g].arg \in ClusterIDs
  /\ \/ /\ goroutine[g].pc = "del_find"
        /\ \A i \in 1..registries.len :
             Cluster(View(registries)[i]) # goroutine[g].arg
     \/ /\ goroutine[g].pc = "unlock"
        /\ goroutine[g].ret = ""

\* C15: DeleteRegistry of a cluster id that no member has, or on an empty set, is
\* a no-op: while the call runs the member sequence (and its backing array) and
\* the cluster-scoped count do not change, and the call releases the exclusive
\* set lock.
C15_DeleteUnknownIsNoOp ==
  /\ [][\A g \in Goroutines :
          NoOpDelete(g) => UNCHANGED <<arrays, registries, numK8SRegistries>>]_vars
  /\ \A g \in Goroutines : NoOpDelete(g) ~> (storeLock.writer # g)

\* DeleteRegistry("c3") on a set of three members, none of cluster c3, has taken
\* its early return and is about to release the lock
C15_Witness ==
  \E g \in Goroutines :
    /\ NoOpDelete(g)
    /\ goroutine[g].pc = "unlock"
    /\ goroutine[g].arg = "c3"
    /\ registries.len = 3
    /\ numK8SRegistries = CountK8S(View(registries))

\* ------------------------------------------------------------------ C16
\* C16: Run starts the run loop of every member present in the set when Run took
\* its snapshot, each exactly once and in order, and of no member added later;
\* Run does not return before the stop channel is closed.
C16_RunStartsEveryMember ==
  \A g \in Goroutines :
    goroutine[g].ret = "run" =>
      /\ goroutine[g].pc = "scan" =>
           goroutine[g].visited = SubSeq(goroutine[g].taken, 1, goroutine[g].idx - 1)
      /\ goroutine[g].pc = "run_returned" =>
           /\ stop
           /\ goroutine[g].visited = goroutine[g].taken

\* ------------------------------------------------------------------ C17
\* C17: under any interleaving of concurrent Services() calls at most one caller
\* is inside the append/merge window; whoever holds the merge mutex is inside the
\* window, where its next step releases the mutex before the next member is
\* fetched (so no caller waits for the mutex for ever), and holds the
\* registry-set lock in neither mode.
C17_MergeMutex ==
  /\ Cardinality({g \in Goroutines : goroutine[g].pc = "window"}) <= 1
  /\ \A g \in Goroutines :
       clusterAddressesMutex = g =>
         /\ goroutine[g].pc = "window"
         /\ storeLock.writer # g
         /\ g \notin storeLock.readers

\* ------------------------------------------------------------------ C19
\* C19: the path a Services() call takes agrees with the members it scans, also
\* next to concurrent AddRegistry / DeleteRegistry calls: when more than one of
\* the members scanned is cluster-scoped the merge path was taken, and the output
\* never holds two records of the hostname that both come from cluster-scoped
\* members.
C19_PathAgreesWithSnapshot ==
  \A g \in Goroutines :
    goroutine[g].ret = "services" =>
      /\ CountK8S(goroutine[g].visited) > 1 => pass[g].merge
      /\ Cardinality({k \in 1..Len(pass[g].services) :
                        Cluster(pass[g].services[k].member) # ""}) <= 1

\* ------------------------------------------------------------------ C18
\* member i reports its h1 record with this tag ("nil", "own") for the map
ReportsMap(i, field, tag) ==
  \E k \in 1..Len(call.answers[i].val) :
    /\ call.answers[i].val[k].Hostname = "h1"
    /\ call.answers[i].val[k][field] = tag

\* the canonical map holds under member j's cluster id the entry j reported
KeepsEntryOf(map, j, what) ==
  /\ ~map.nil
  /\ Cluster(call.members[j]) \in DOMAIN map.m
  /\ map.m[Cluster(call.members[j])] = <<what, call.members[j]>>

\* C18: in a merge pass (Services or GetService, every member that reports h1
\* cluster-scoped) a member that reports nil for ClusterExternalAddresses or
\* ClusterExternalPorts is no error: the pass returns with the errors of the
\* failing members only, the canonical record of h1 has no entry of that member
\* in the map it reported nil for, the entries the other members reported are all
\* there as reported, and the ClusterVIPs entry of the member is set.
C18_NilMapsContributeOnlyVIP ==
  (/\ call.op \in {"Services", "GetService"}
   /\ CountK8S(call.members) > 1
   /\ PlainSightingsOf("h1") = {}) =>
    \A i \in SightingsOf("h1") :
      (ReportsMap(i, "cea", "nil") \/ ReportsMap(i, "cep", "nil")) =>
        /\ ~call.result.panic
        /\ call.result.err = ErrorsOf(call.answers)
        /\ \A k \in CanonicalRecords :
             call.returned[k].Hostname = "h1" =>
               /\ ReportsMap(i, "cea", "nil") =>
                    Cluster(call.members[i])
                      \notin DOMAIN call.returned[k].ClusterExternalAddresses.m
               /\ ReportsMap(i, "cep", "nil") =>
                    Cluster(call.members[i])
                      \notin DOMAIN call.returned[k].ClusterExternalPorts.m
               /\ \A j \in SightingsOf("h1") :
                    /\ ReportsMap(j, "cea", "own") =>
                         KeepsEntryOf(call.returned[k].ClusterExternalAddresses, j, "lb")
                    /\ ReportsMap(j, "cep", "own") =>
                         KeepsEntryOf(call.returned[k].ClusterExternalPorts, j, "np")
               /\ ~call.returned[k].ClusterVIPs.nil
               /\ Cluster(call.members[i]) \in DOMAIN call.returned[k].ClusterVIPs.m
               /\ call.returned[k].ClusterVIPs.m[Cluster(call.members[i])]
                    = <<AddressOf(call.members[i])>>

\* ------------------------------------------------------------------ C20
\* C20: a merge pass (Services or GetService) never writes into a nil map of the
\* canonical copy: whatever combination of nil and non-nil ClusterVIPs,
\* ClusterExternalAddresses and ClusterExternalPorts the members report, the pass
\* completes and returns.
C20_MergeNeverPanics ==
  (call.op \in {"Services", "GetService"} /\ CountK8S(call.members) > 1) =>
    ~call.result.panic

====
